---- MODULE Spec2Model ----
(***************************************************************************)
(* VAT calculator: the VAT arithmetic (utils/math.ts), the history store   *)
(* (store/useHistoryStore.ts) and the auto-save logic of the calculator    *)
(* hook (hooks/useVatCalculator.ts).                                       *)
(*                                                                         *)
(* A decimal number (a text parsed, an amount of a result) is an integer    *)
(* counting thousandths (5 is 5000, 7.5 is 7500); the arithmetic between   *)
(* is done on IEEE 754 binary64 values, as JavaScript does it.  Texts are  *)
(* sequences of one-character strings.  One action is one event of the     *)
(* event loop: the handler, the re-render it causes and the effect that    *)
(* recalculates when amount, vatRate or mode changed.                      *)
(***************************************************************************)
EXTENDS Integers, Sequences, FiniteSets, TLC

\* ------------------------------------------------------------------ bounds
\* Date.now() reads a clock set between 1 and MaxNow; within a run of the
\* calculator the clock does not advance (no code reads a timestamp back).
MaxNow == 1
\* The controller stops taking events after MaxCommits commits,
MaxCommits == 2
\* and after MaxDedupCommits in the specification of repeated results.
MaxDedupCommits == 3
\* The count of amount edits in a row saturates at MaxBurst.
MaxBurst == 2
\* The store specification stops appending after MaxAppends appends.
MaxAppends == 12

\* Direct calls of roundToDecimal take the exact half-cent ties
\* 0.125 + 0.25 j and their negatives, j up to MaxTie, with the values one
\* thousandth to either side,
MaxTie == 40
\* the values c cents and a half, c up to MaxHalfCent,
MaxHalfCent == 220
\* and direct calls of addVat and extractVat the amounts up to MaxCents cents.
MaxCents == 20

\* ------------------------------------------------------- program constants
maxHistorySize == 10
Milli == 1000

DEFAULT_VAT_RATE == <<"7", ".", "5">>

\* ------------------------------------------------------------------- texts
DigitChars == <<"0", "1", "2", "3", "4", "5", "6", "7", "8", "9">>

IsDigit(c) == \E i \in 1..10 : DigitChars[i] = c

DigitVal(c) == (CHOOSE i \in 1..10 : DigitChars[i] = c) - 1

Tail2(t) == SubSeq(t, 2, Len(t))

RECURSIVE DigitPrefixLen(_)
DigitPrefixLen(t) ==
  IF t = <<>> \/ ~IsDigit(t[1]) THEN 0 ELSE 1 + DigitPrefixLen(Tail2(t))

RECURSIVE DigitsValue(_)
DigitsValue(t) ==
  IF t = <<>> THEN 0 ELSE 10 * DigitsValue(SubSeq(t, 1, Len(t) - 1)) + DigitVal(t[Len(t)])

\* The pattern /^\d*\.?\d*$/ of the two setters: digits, at most one point.
MatchesDecimal(t) ==
  LET n == DigitPrefixLen(t)
      rest == SubSeq(t, n + 1, Len(t))
      frac == IF rest # <<>> /\ rest[1] = "." THEN Tail2(rest) ELSE rest
  IN DigitPrefixLen(frac) = Len(frac)

NaN == -1000000000

isNaN(x) == x = NaN

\* parseFloat: optional sign, digits, optional point and digits; the longest
\* such prefix is the number, NaN when it holds no digit.  The value is in
\* thousandths; decimals beyond the third are dropped.
parseFloat(t) ==
  LET signed == t # <<>> /\ t[1] \in {"-", "+"}
      body == IF signed THEN Tail2(t) ELSE t
      n == DigitPrefixLen(body)
      rest == SubSeq(body, n + 1, Len(body))
      frac == IF rest # <<>> /\ rest[1] = "."
                THEN SubSeq(rest, 2, 1 + DigitPrefixLen(Tail2(rest)))
                ELSE <<>>
      d(i) == IF i <= Len(frac) THEN DigitVal(frac[i]) ELSE 0
      mag == Milli * DigitsValue(SubSeq(body, 1, n)) + 100 * d(1) + 10 * d(2) + d(3)
  IN IF n = 0 /\ frac = <<>> THEN NaN
     ELSE IF signed /\ t[1] = "-" THEN 0 - mag ELSE mag

RECURSIVE NatChars(_)
NatChars(n) ==
  IF n < 10 THEN <<DigitChars[n + 1]>>
  ELSE NatChars(n \div 10) \o <<DigitChars[(n % 10) + 1]>>

\* Number.prototype.toFixed(2): two decimals, half away from zero.
toFixed2(x) ==
  LET a == IF x < 0 THEN 0 - x ELSE x
      cents == (a + 5) \div 10
      digits == NatChars(cents \div 100) \o <<".">> \o
                <<DigitChars[((cents \div 10) % 10) + 1], DigitChars[(cents % 10) + 1]>>
  IN IF x < 0 /\ cents # 0 THEN <<"-">> \o digits ELSE digits

\* String(number) as a template literal prints it: no trailing zeros.
NumberToString(x) ==
  LET a == IF x < 0 THEN 0 - x ELSE x
      f == a % Milli
      fd == <<DigitChars[(f \div 100) + 1], DigitChars[((f \div 10) % 10) + 1],
              DigitChars[(f % 10) + 1]>>
      keep == IF f % 10 # 0 THEN 3 ELSE IF f % 100 # 0 THEN 2 ELSE 1
      digits == IF f = 0 THEN NatChars(a \div Milli)
                ELSE NatChars(a \div Milli) \o <<".">> \o SubSeq(fd, 1, keep)
  IN IF x < 0 THEN <<"-">> \o digits ELSE digits

\* ------------------------------------------------------- natural numbers
\* A JavaScript number is an IEEE 754 binary64 value; its 53-bit significand
\* does not fit an integer of the model, so naturals are sequences of limbs
\* below Base, the least significant first, without a leading zero limb.
Base == 32768

LimbBits == 15

RECURSIVE Pow2(_)
Pow2(k) == IF k = 0 THEN 1 ELSE 2 * Pow2(k - 1)

RECURSIVE Pow10(_)
Pow10(k) == IF k = 0 THEN 1 ELSE 10 * Pow10(k - 1)

RECURSIVE BitLen(_)
BitLen(n) == IF n = 0 THEN 0 ELSE 1 + BitLen(n \div 2)

RECURSIVE Zeros(_)
Zeros(k) == IF k = 0 THEN <<>> ELSE <<0>> \o Zeros(k - 1)

RECURSIVE BNorm(_)
BNorm(a) ==
  IF a # <<>> /\ a[Len(a)] = 0 THEN BNorm(SubSeq(a, 1, Len(a) - 1)) ELSE a

RECURSIVE BFromNat(_)
BFromNat(n) == IF n = 0 THEN <<>> ELSE <<n % Base>> \o BFromNat(n \div Base)

RECURSIVE BToNat(_)
BToNat(a) == IF a = <<>> THEN 0 ELSE a[1] + Base * BToNat(Tail(a))

BLow(a) == IF a = <<>> THEN 0 ELSE a[1]

BRest(a) == IF a = <<>> THEN <<>> ELSE Tail(a)

\* a + b + c
RECURSIVE BAddC(_, _, _)
BAddC(a, b, c) ==
  IF a = <<>> /\ b = <<>> THEN BFromNat(c)
  ELSE LET x == BLow(a) + BLow(b) + c
       IN <<x % Base>> \o BAddC(BRest(a), BRest(b), x \div Base)

BAdd(a, b) == BAddC(a, b, 0)

\* a - b - c for a >= b + c, before normalisation
RECURSIVE BSubC(_, _, _)
BSubC(a, b, c) ==
  IF a = <<>> THEN <<>>
  ELSE LET x == a[1] - BLow(b) - c
       IN IF x < 0 THEN <<x + Base>> \o BSubC(Tail(a), BRest(b), 1)
          ELSE <<x>> \o BSubC(Tail(a), BRest(b), 0)

BSub(a, b) == BNorm(BSubC(a, b, 0))

\* -1, 0 or 1 as a is below, equal to or above b
RECURSIVE BCmpAt(_, _, _)
BCmpAt(a, b, i) ==
  IF i = 0 THEN 0
  ELSE IF a[i] < b[i] THEN -1
  ELSE IF a[i] > b[i] THEN 1
  ELSE BCmpAt(a, b, i - 1)

BCmp(a, b) ==
  IF Len(a) < Len(b) THEN -1
  ELSE IF Len(a) > Len(b) THEN 1
  ELSE BCmpAt(a, b, Len(a))

\* a * k + c for a limb k
RECURSIVE BMulSmall(_, _, _)
BMulSmall(a, k, c) ==
  IF a = <<>> THEN BFromNat(c)
  ELSE LET x == a[1] * k + c
       IN <<x % Base>> \o BMulSmall(Tail(a), k, x \div Base)

RECURSIVE BMul(_, _)
BMul(a, b) ==
  IF a = <<>> \/ b = <<>> THEN <<>>
  ELSE LET rest == BMul(a, Tail(b))
       IN BAdd(BMulSmall(a, b[1], 0), IF rest = <<>> THEN <<>> ELSE <<0>> \o rest)

\* a * 2^k
BShl(a, k) ==
  IF a = <<>> THEN <<>>
  ELSE Zeros(k \div LimbBits) \o BMulSmall(a, Pow2(k % LimbBits), 0)

\* floor(a / d) for a limb d, limbs 1..i of a with r carried in from above
RECURSIVE BDivSmallAt(_, _, _, _)
BDivSmallAt(a, d, i, r) ==
  IF i = 0 THEN <<>>
  ELSE LET x == r * Base + a[i]
       IN Append(BDivSmallAt(a, d, i - 1, x % d), x \div d)

\* floor(a / 2^k)
BShr(a, k) ==
  LET w == k \div LimbBits
      hi == IF w >= Len(a) THEN <<>> ELSE SubSeq(a, w + 1, Len(a))
  IN BNorm(BDivSmallAt(hi, Pow2(k % LimbBits), Len(hi), 0))

BBitLen(a) ==
  IF a = <<>> THEN 0 ELSE LimbBits * (Len(a) - 1) + BitLen(a[Len(a)])

BOdd(a) == a # <<>> /\ a[1] % 2 = 1

\* ------------------------------------------------------------- binary64
\* A finite double is sign * m * 2^e with m of exactly SigBits bits, or zero.
\* Numbers here stay far inside the normal range: no subnormal, no infinity;
\* the sign of zero is not kept.
SigBits == 53

Zero == [sign |-> 1, m |-> <<>>, e |-> 0]

\* Restoring division, one quotient bit per step, until the quotient d.q has
\* the given number of bits; d.n starts in [t, 2t), so the first bit is 1.
\* The d.n returned is the remainder against t, doubled.
RECURSIVE DivLoop(_, _, _)
DivLoop(d, t, bits) ==
  IF BBitLen(d.q) >= bits THEN d
  ELSE IF BCmp(d.n, t) >= 0
    THEN DivLoop([q |-> BAddC(d.q, d.q, 1), n |-> BAddC(BSub(d.n, t), BSub(d.n, t), 0)], t, bits)
    ELSE DivLoop([q |-> BAddC(d.q, d.q, 0), n |-> BAddC(d.n, d.n, 0)], t, bits)

\* The first SigBits bits of n / t, a limb's worth of bits at a time.
RECURSIVE Quotient(_, _, _)
Quotient(n, t, bits) ==
  IF bits <= 0 THEN [q |-> <<>>, n |-> n]
  ELSE DivLoop(Quotient(n, t, bits - LimbBits), t, bits)

\* The quotient d.q rounded to nearest, ties to even, on the doubled
\* remainder d.n against t; a carry out of the significand moves the exponent.
Rounded(q, e) ==
  IF BBitLen(q) > SigBits THEN [m |-> BShr(q, 1), e |-> e + 1] ELSE [m |-> q, e |-> e]

RoundUp(q, c) == c > 0 \/ (c = 0 /\ BOdd(q))

RoundEven(d, t, e) ==
  Rounded(IF RoundUp(d.q, BCmp(d.n, t)) THEN BAddC(d.q, <<>>, 1) ELSE d.q, e)

\* The exponent e with 2^(SigBits-1) <= N / (D * 2^e) < 2^SigBits, where k
\* is the difference of the bit lengths of N and D.
ExponentAt(N, D, k) ==
  IF BCmp(BShl(N, IF k < 0 THEN 0 - k ELSE 0), BShl(D, IF k > 0 THEN k ELSE 0)) >= 0
    THEN k - (SigBits - 1)
    ELSE k - SigBits

NearestAt(N, D, e) ==
  RoundEven(Quotient(BShl(N, IF e < 0 THEN 0 - e ELSE 0),
                     BShl(D, (IF e > 0 THEN e ELSE 0) + (SigBits - 1)), SigBits),
            BShl(D, (IF e > 0 THEN e ELSE 0) + (SigBits - 1)), e)

\* Round to nearest, ties to even: the double nearest to N / D, for N, D > 0.
Nearest(N, D) == NearestAt(N, D, ExponentAt(N, D, BBitLen(N) - BBitLen(D)))

\* The double nearest to sign * (N / D) * 2^e.
Scaled(sign, r, e) == [sign |-> sign, m |-> r.m, e |-> r.e + e]

FRound(sign, N, D, e) ==
  IF N = <<>> THEN Zero ELSE Scaled(sign, Nearest(N, D), e)

\* The double a decimal literal or parseFloat yields: nearest to k / den.
Double(k, den) ==
  FRound(IF k < 0 THEN -1 ELSE 1, BFromNat(IF k < 0 THEN 0 - k ELSE k), BFromNat(den), 0)

\* The double nearest to (sa * A + sb * B) * 2^e for naturals A, B, where c
\* tells whether A is below, equal to or above B.
FSum(sa, A, sb, B, c, e) ==
  FRound(IF sa = sb \/ c >= 0 THEN sa ELSE sb,
         IF sa = sb THEN BAddC(A, B, 0) ELSE IF c >= 0 THEN BSub(A, B) ELSE BSub(B, A),
         <<1>>, e)

FAligned(a, b, e) ==
  FSum(a.sign, BShl(a.m, a.e - e), b.sign, BShl(b.m, b.e - e),
       BCmp(BShl(a.m, a.e - e), BShl(b.m, b.e - e)), e)

\* a + b
FAdd(a, b) ==
  IF a.m = <<>> THEN b
  ELSE IF b.m = <<>> THEN a
  ELSE FAligned(a, b, IF a.e < b.e THEN a.e ELSE b.e)

FNeg(a) == IF a.m = <<>> THEN a ELSE [a EXCEPT !.sign = 0 - @]

\* a - b
FSub(a, b) == FAdd(a, FNeg(b))

\* a * b
FMul(a, b) == FRound(a.sign * b.sign, BMul(a.m, b.m), <<1>>, a.e + b.e)

\* a / b
FDiv(a, b) == FRound(a.sign * b.sign, a.m, b.m, a.e - b.e)

\* floor(sign * M * 2^e + 1/2) as an integer
NearestInt(sign, M, e) ==
  IF e >= 0 THEN sign * BToNat(BShl(M, e))
  ELSE LET half == BShl(<<1>>, (0 - e) - 1)
       IN IF sign > 0 THEN BToNat(BShr(BAdd(M, half), 0 - e))
          ELSE IF BCmp(M, half) <= 0 THEN 0
          ELSE 0 - BToNat(BShr(BAdd(BSub(M, half), BSub(BShl(<<1>>, 0 - e), <<1>>)), 0 - e))

\* Number.EPSILON = 2^-52
EPSILON == [sign |-> 1, m |-> BShl(<<1>>, SigBits - 1), e |-> 0 - 2 * (SigBits - 1)]

\* -------------------------------------------------------------- arithmetic
\* Faulty variant: a tie goes away from zero (the magnitude is rounded).
MathRound_HalfAway(x) == Double(x.sign * NearestInt(1, x.m, x.e), 1)

\* Faulty variant: the fraction is cut off (Math.trunc).
MathRound_Trunc(x) ==
  Double(x.sign * BToNat(IF x.e >= 0 THEN BShl(x.m, x.e) ELSE BShr(x.m, 0 - x.e)), 1)

\* Math.round: the nearest integer, a tie goes up (floor(x + 1/2), exactly).
MathRound(x) == Double(NearestInt(x.sign, x.m, x.e), 1)

\* The double x read in thousandths, to the nearest; a double the code
\* rounded to cents reads as ten times its cents.
ToMilli(x) == NearestInt(x.sign, BMulSmall(x.m, Milli, 0), x.e)

\* Faulty variant: the value is handed back as it came, not rounded.
roundToDecimal_Unrounded(value, decimals) == value

roundToDecimal(value, decimals) ==
  LET multiplier == Double(Pow10(decimals), 1)
  IN FDiv(MathRound(FMul(FAdd(value, EPSILON), multiplier)), multiplier)

\* The result of a failed call (a thrown Error).
Thrown == [mode |-> "thrown"]

Null == [mode |-> "null"]

\* Faulty variant: the rate is checked, the sign of the price is not.
addVat_AnyPrice(price, rate, ts) ==
  IF rate < 0 \/ rate > 100 * Milli THEN Thrown
  ELSE LET priceExcludingVat == roundToDecimal(Double(price, Milli), 2)
           vatAmount ==
             roundToDecimal(FMul(Double(price, Milli),
                                 FDiv(Double(rate, Milli), Double(100, 1))), 2)
           priceIncludingVat == roundToDecimal(FAdd(priceExcludingVat, vatAmount), 2)
       IN [mode |-> "add", vatRate |-> rate,
           priceExcludingVat |-> ToMilli(priceExcludingVat),
           vatAmount |-> ToMilli(vatAmount),
           priceIncludingVat |-> ToMilli(priceIncludingVat),
           timestamp |-> ts, src |-> price]

\* Faulty variant: the upper end of the rate range is shut out (>= for >).
addVat_RateBelow100(price, rate, ts) ==
  IF price < 0 THEN Thrown
  ELSE IF rate < 0 \/ rate >= 100 * Milli THEN Thrown
  ELSE LET priceExcludingVat == roundToDecimal(Double(price, Milli), 2)
           vatAmount ==
             roundToDecimal(FMul(Double(price, Milli),
                                 FDiv(Double(rate, Milli), Double(100, 1))), 2)
           priceIncludingVat == roundToDecimal(FAdd(priceExcludingVat, vatAmount), 2)
       IN [mode |-> "add", vatRate |-> rate,
           priceExcludingVat |-> ToMilli(priceExcludingVat),
           vatAmount |-> ToMilli(vatAmount),
           priceIncludingVat |-> ToMilli(priceIncludingVat),
           timestamp |-> ts, src |-> price]

\* price and rate arrive in thousandths, as parseFloat reads them, and are
\* the doubles nearest to them; the amounts of the result are read back in
\* thousandths.  src is an auxiliary field: the amount the result was
\* computed from.
addVat(price, rate, ts) ==
  IF price < 0 THEN Thrown
  ELSE IF rate < 0 \/ rate > 100 * Milli THEN Thrown
  ELSE LET priceExcludingVat == roundToDecimal(Double(price, Milli), 2)
           vatAmount ==
             roundToDecimal(FMul(Double(price, Milli),
                                 FDiv(Double(rate, Milli), Double(100, 1))), 2)
           priceIncludingVat == roundToDecimal(FAdd(priceExcludingVat, vatAmount), 2)
       IN [mode |-> "add", vatRate |-> rate,
           priceExcludingVat |-> ToMilli(priceExcludingVat),
           vatAmount |-> ToMilli(vatAmount),
           priceIncludingVat |-> ToMilli(priceIncludingVat),
           timestamp |-> ts, src |-> price]

\* Faulty variant: the VAT is derived from the unrounded amounts and rounded
\* on its own, not taken as the difference of the two rounded amounts.
extractVat_VatOnItsOwn(total, rate, ts) ==
  IF total < 0 THEN Thrown
  ELSE IF rate < 0 \/ rate > 100 * Milli THEN Thrown
  ELSE LET priceIncludingVat == roundToDecimal(Double(total, Milli), 2)
           unrounded ==
             FDiv(Double(total, Milli),
                  FAdd(Double(1, 1), FDiv(Double(rate, Milli), Double(100, 1))))
           priceExcludingVat == roundToDecimal(unrounded, 2)
           vatAmount == roundToDecimal(FSub(Double(total, Milli), unrounded), 2)
       IN [mode |-> "extract", vatRate |-> rate,
           priceExcludingVat |-> ToMilli(priceExcludingVat),
           vatAmount |-> ToMilli(vatAmount),
           priceIncludingVat |-> ToMilli(priceIncludingVat),
           timestamp |-> ts, src |-> total]

\* Faulty variant: the VAT is taken as the rate's share of the total.
extractVat_RateOfTotal(total, rate, ts) ==
  IF total < 0 THEN Thrown
  ELSE IF rate < 0 \/ rate > 100 * Milli THEN Thrown
  ELSE LET priceIncludingVat == roundToDecimal(Double(total, Milli), 2)
           priceExcludingVat ==
             roundToDecimal(FSub(Double(total, Milli),
                                 FMul(Double(total, Milli),
                                      FDiv(Double(rate, Milli), Double(100, 1)))), 2)
           vatAmount == roundToDecimal(FSub(priceIncludingVat, priceExcludingVat), 2)
       IN [mode |-> "extract", vatRate |-> rate,
           priceExcludingVat |-> ToMilli(priceExcludingVat),
           vatAmount |-> ToMilli(vatAmount),
           priceIncludingVat |-> ToMilli(priceIncludingVat),
           timestamp |-> ts, src |-> total]

\* Faulty variant: the total is multiplied by 1 + rate/100 where it is divided.
extractVat_Multiplies(total, rate, ts) ==
  IF total < 0 THEN Thrown
  ELSE IF rate < 0 \/ rate > 100 * Milli THEN Thrown
  ELSE LET priceIncludingVat == roundToDecimal(Double(total, Milli), 2)
           priceExcludingVat ==
             roundToDecimal(FMul(Double(total, Milli),
                                 FAdd(Double(1, 1),
                                      FDiv(Double(rate, Milli), Double(100, 1)))), 2)
           vatAmount == roundToDecimal(FSub(priceIncludingVat, priceExcludingVat), 2)
       IN [mode |-> "extract", vatRate |-> rate,
           priceExcludingVat |-> ToMilli(priceExcludingVat),
           vatAmount |-> ToMilli(vatAmount),
           priceIncludingVat |-> ToMilli(priceIncludingVat),
           timestamp |-> ts, src |-> total]

extractVat(total, rate, ts) ==
  IF total < 0 THEN Thrown
  ELSE IF rate < 0 \/ rate > 100 * Milli THEN Thrown
  ELSE LET priceIncludingVat == roundToDecimal(Double(total, Milli), 2)
           priceExcludingVat ==
             roundToDecimal(FDiv(Double(total, Milli),
                                 FAdd(Double(1, 1),
                                      FDiv(Double(rate, Milli), Double(100, 1)))), 2)
           vatAmount == roundToDecimal(FSub(priceIncludingVat, priceExcludingVat), 2)
       IN [mode |-> "extract", vatRate |-> rate,
           priceExcludingVat |-> ToMilli(priceExcludingVat),
           vatAmount |-> ToMilli(vatAmount),
           priceIncludingVat |-> ToMilli(priceIncludingVat),
           timestamp |-> ts, src |-> total]

calculateVat(amt, rate, m, ts) ==
  IF m = "add" THEN addVat(amt, rate, ts) ELSE extractVat(amt, rate, ts)

\* ------------------------------------------------------------------- store
\* Faulty variant: the store never evicts.
addCalculation_NoEvict(h, calculation) == <<calculation>> \o h

\* Faulty variant: a full store drops the entry just added (shift for pop).
addCalculation_EvictNewest(h, calculation) ==
  LET newHistory == <<calculation>> \o h
  IN IF Len(newHistory) > maxHistorySize
       THEN SubSeq(newHistory, 2, Len(newHistory))
       ELSE newHistory

\* addCalculation of the history store: newest first, the oldest one out.
addCalculation(h, calculation) ==
  LET newHistory == <<calculation>> \o h
  IN IF Len(newHistory) > maxHistorySize
       THEN SubSeq(newHistory, 1, Len(newHistory) - 1)
       ELSE newHistory

\* ------------------------------------------------------------------ inputs
\* Texts the fields may receive: empty, zero, a positive amount and a text
\* the pattern rejects; for the rate empty (fails validation), the default
\* and a rejected text.
AmountInputs == {<<>>, <<"0">>, <<"5">>, <<"-", "5">>}

RateInputs == {<<>>, <<"7", ".", "5">>, <<"x">>}

\* Rate texts of the specification of rate edits: a second valid rate.
RateEdits == {<<>>, <<"7", ".", "5">>, <<"2", "0">>}

Modes == {"add", "extract"}

Keys == {"Enter", "a"}

StoreEntries == {addVat(5000, 7500, 1), extractVat(5000, 7500, 1)}

\* The numbers the amount and rate fields can hold when they pass validation.
FieldAmounts == {x \in {parseFloat(t) : t \in AmountInputs} : x >= 0}

FieldRates ==
  {x \in {parseFloat(t) : t \in RateInputs \cup RateEdits} : x >= 0 /\ x <= 100 * Milli}

\* calculateVat over those numbers.  The table is computed once, when the
\* model starts, and kept in vatTable; performCalculation looks its result
\* up there and stamps it with the time of the call.
VatTable ==
  {[amt |-> c[1], rate |-> c[2], m |-> c[3],
    calculation |-> calculateVat(c[1], c[2], c[3], 0)] :
     c \in FieldAmounts \X FieldRates \X Modes}

\* -------------------------------------------------------------------- state
VARIABLES
  amount, vatRate, mode, result,          \* useState of the hook
  lastSavedKeyRef, lastValidResultRef,    \* useRef of the hook
  debounceTimerRef,                       \* id of the pending timeout, 0 = null
  latestAmountRef, latestVatRateRef, latestModeRef, latestResultRef,
  history,                                \* the store's history
  timers,                                 \* timeouts the event loop still holds
  now,                                    \* the clock behind Date.now()
  lastEvent,                              \* auxiliary: the event just handled
  evCommits,                              \* auxiliary: entries it committed
  evHadTimer,                             \* auxiliary: a timeout was pending before it
  committed,                              \* auxiliary: every entry committed so far
  burst,                                  \* auxiliary: amount edits in a row, timer pending
  appended,                               \* auxiliary: entries given to the store directly since it was empty
  call,                                   \* a direct call of the arithmetic: function and arguments
  ret,                                    \* what that call returned
  vatTable,                               \* auxiliary: VatTable, computed once
  commitBound                             \* auxiliary: the run takes no event after this many commits

vars == <<amount, vatRate, mode, result, lastSavedKeyRef, lastValidResultRef,
          debounceTimerRef, latestAmountRef, latestVatRateRef, latestModeRef,
          latestResultRef, history, timers, now, lastEvent, evCommits,
          evHadTimer, committed, burst, appended, call, ret, vatTable, commitBound>>

\* The hook's state, refs and the store as one record the handlers transform.
\* The fields amount, vatRate, mode and result of the record are the values
\* set for the next render; a handler reads the current render's values from
\* the variables themselves (its closure).
St == [amount |-> amount, vatRate |-> vatRate, mode |-> mode, result |-> result,
       lastSavedKeyRef |-> lastSavedKeyRef, lastValidResultRef |-> lastValidResultRef,
       debounceTimerRef |-> debounceTimerRef, latestAmountRef |-> latestAmountRef,
       latestVatRateRef |-> latestVatRateRef, latestModeRef |-> latestModeRef,
       latestResultRef |-> latestResultRef, history |-> history, timers |-> timers,
       evCommits |-> <<>>]

createCalculationKey(calcResult, calcMode) ==
  toFixed2(calcResult.priceExcludingVat) \o <<"-">> \o NumberToString(calcResult.vatRate)
    \o <<"-", calcMode, "-">> \o toFixed2(calcResult.priceIncludingVat)

\* Faulty variant: a result is skipped when any entry of the history has its
\* key, not only the entry saved last.
saveCalculation_AgainstAll(s, calcResult, key) ==
  IF s.lastSavedKeyRef = key
       \/ \E i \in 1..Len(s.history) :
            createCalculationKey(s.history[i], s.history[i].mode) = key
    THEN s
  ELSE [s EXCEPT !.history = addCalculation(@, calcResult),
                 !.lastSavedKeyRef = key,
                 !.evCommits = Append(@, calcResult)]

\* Faulty variant: a result is appended whatever the last saved key is.
saveCalculation_NoDedup(s, calcResult, key) ==
  [s EXCEPT !.history = addCalculation(@, calcResult),
            !.lastSavedKeyRef = key,
            !.evCommits = Append(@, calcResult)]

saveCalculation(s, calcResult, key) ==
  IF s.lastSavedKeyRef = key THEN s
  ELSE [s EXCEPT !.history = addCalculation(@, calcResult),
                 !.lastSavedKeyRef = key,
                 !.evCommits = Append(@, calcResult)]

\* Faulty variant: inputs that fail validation leave the displayed result
\* as it was.
performCalculation_KeepsResult(s, ts) ==
  LET amountNum == parseFloat(s.amount)
      vatRateNum == parseFloat(s.vatRate)
  IN IF isNaN(amountNum) \/ isNaN(vatRateNum) THEN s
     ELSE IF amountNum < 0 \/ vatRateNum < 0 \/ vatRateNum > 100 * Milli
             \/ s.amount = <<>> \/ s.vatRate = <<>>
       THEN s
     ELSE LET calculationResult ==
                [(CHOOSE t \in vatTable :
                     t.amt = amountNum /\ t.rate = vatRateNum /\ t.m = s.mode).calculation
                   EXCEPT !.timestamp = ts]
          IN [s EXCEPT !.result = calculationResult,
                       !.latestAmountRef = s.amount,
                       !.latestVatRateRef = s.vatRate,
                       !.latestModeRef = s.mode,
                       !.latestResultRef = calculationResult,
                       !.lastValidResultRef =
                          IF amountNum > 0
                            THEN [result |-> calculationResult,
                                  key |-> createCalculationKey(calculationResult, s.mode)]
                            ELSE @]

\* performCalculation as rendered with the amount, vatRate and mode of s.
performCalculation(s, ts) ==
  LET amountNum == parseFloat(s.amount)
      vatRateNum == parseFloat(s.vatRate)
  IN IF isNaN(amountNum) \/ isNaN(vatRateNum) THEN [s EXCEPT !.result = Null]
     ELSE IF amountNum < 0 \/ vatRateNum < 0 \/ vatRateNum > 100 * Milli
             \/ s.amount = <<>> \/ s.vatRate = <<>>
       THEN [s EXCEPT !.result = Null]
     ELSE LET calculationResult ==
                [(CHOOSE t \in vatTable :
                     t.amt = amountNum /\ t.rate = vatRateNum /\ t.m = s.mode).calculation
                   EXCEPT !.timestamp = ts]
          IN IF calculationResult = Thrown
               THEN [s EXCEPT !.result = Null, !.latestResultRef = Null]
               ELSE [s EXCEPT !.result = calculationResult,
                              !.latestAmountRef = s.amount,
                              !.latestVatRateRef = s.vatRate,
                              !.latestModeRef = s.mode,
                              !.latestResultRef = calculationResult,
                              !.lastValidResultRef =
                                 IF amountNum > 0
                                   THEN [result |-> calculationResult,
                                         key |-> createCalculationKey(calculationResult, s.mode)]
                                   ELSE @]

\* The re-render after a handler: the effect runs performCalculation when
\* amount, vatRate or mode changed.
Render(s, ts) ==
  IF <<s.amount, s.vatRate, s.mode>> # <<amount, vatRate, mode>>
    THEN performCalculation(s, ts)
    ELSE s

\* saveToHistory closes over result, amount and mode of the current render.
saveToHistory(s) ==
  IF result = Null THEN s
  ELSE LET amountNum == parseFloat(amount)
       IN IF isNaN(amountNum) \/ amountNum <= 0 THEN s
          ELSE saveCalculation(s, result, createCalculationKey(result, mode))

clearTimeout(s, id) == [s EXCEPT !.timers = @ \ {id}]

\* The id setTimeout hands out: positive, not that of a timeout still held.
NewTimerId(s) ==
  CHOOSE id \in 1..(Cardinality(s.timers) + 1) :
    id \notin s.timers /\ \A j \in 1..(id - 1) : j \in s.timers

\* Faulty variant: a new timeout is started without clearing the pending one.
scheduleAutoSave_NoClear(s) ==
  LET id == NewTimerId(s)
  IN [s EXCEPT !.timers = @ \cup {id}, !.debounceTimerRef = id]

scheduleAutoSave(s) ==
  LET c == IF s.debounceTimerRef # 0 THEN clearTimeout(s, s.debounceTimerRef) ELSE s
      id == NewTimerId(c)
  IN [c EXCEPT !.timers = @ \cup {id}, !.debounceTimerRef = id]

\* The callback scheduleAutoSave hands to setTimeout.
TimerCallback(s) ==
  LET currentResult == s.latestResultRef
      currentAmount == s.latestAmountRef
      currentMode == s.latestModeRef
      amountNum == parseFloat(currentAmount)
      key == createCalculationKey(currentResult, currentMode)
  IN IF currentResult = Null THEN [s EXCEPT !.debounceTimerRef = 0]
     ELSE IF isNaN(amountNum) \/ amountNum <= 0 THEN [s EXCEPT !.debounceTimerRef = 0]
     ELSE IF s.lastSavedKeyRef = key THEN [s EXCEPT !.debounceTimerRef = 0]
     ELSE [saveCalculation(s, currentResult, key) EXCEPT !.debounceTimerRef = 0]

\* Faulty variant: the ref is set to null but the timeout is not cleared.
CancelTimer_KeepsTimeout(s) == [s EXCEPT !.debounceTimerRef = 0]

CancelTimer(s) ==
  IF s.debounceTimerRef # 0
    THEN [clearTimeout(s, s.debounceTimerRef) EXCEPT !.debounceTimerRef = 0]
    ELSE s

\* Faulty variant: blur saves but leaves the timer running.
handleAmountBlur_NoCancel(s) == saveToHistory(s)

handleAmountBlur(s) == saveToHistory(CancelTimer(s))

\* Enter: save, then blur the field, whose blur handler runs at once.
handleAmountKeyDown(s, key) ==
  IF key = "Enter" THEN handleAmountBlur(saveToHistory(CancelTimer(s))) ELSE s

\* Faulty variant: reset clears without saving first.
resetCalculator_NoSave(s) ==
  LET c == CancelTimer(s)
  IN [c EXCEPT !.amount = <<>>, !.vatRate = DEFAULT_VAT_RATE, !.mode = "add",
               !.result = Null,
               !.latestAmountRef = <<>>, !.latestVatRateRef = DEFAULT_VAT_RATE,
               !.latestModeRef = "add", !.latestResultRef = Null,
               !.lastValidResultRef = Null]

resetCalculator(s) ==
  LET saved == IF result # Null THEN saveToHistory(s) ELSE s
      c == CancelTimer(saved)
  IN [c EXCEPT !.amount = <<>>, !.vatRate = DEFAULT_VAT_RATE, !.mode = "add",
               !.result = Null,
               !.latestAmountRef = <<>>, !.latestVatRateRef = DEFAULT_VAT_RATE,
               !.latestModeRef = "add", !.latestResultRef = Null,
               !.lastValidResultRef = Null]

\* Faulty variant: clearing the amount saves but leaves the timer running.
handleSetAmount_KeepTimer(s, value) ==
  IF value = <<>> \/ MatchesDecimal(value)
    THEN LET previousAmount == amount
             a == [s EXCEPT !.latestAmountRef = value]
             b == IF previousAmount # <<>> /\ value = <<>>
                    THEN LET saved == IF a.lastValidResultRef # Null
                                        THEN saveCalculation(a, a.lastValidResultRef.result,
                                                             a.lastValidResultRef.key)
                                        ELSE a
                         IN [saved EXCEPT !.lastValidResultRef = Null,
                                          !.latestResultRef = Null]
                    ELSE IF value # <<>> /\ value # previousAmount
                      THEN scheduleAutoSave(a)
                      ELSE a
         IN [b EXCEPT !.amount = value]
    ELSE s

\* Faulty variant: the text is not matched against the pattern.
handleSetAmount_NoPattern(s, value) ==
  IF TRUE
    THEN LET previousAmount == amount
             a == [s EXCEPT !.latestAmountRef = value]
             b == IF previousAmount # <<>> /\ value = <<>>
                    THEN LET saved == IF a.lastValidResultRef # Null
                                        THEN saveCalculation(a, a.lastValidResultRef.result,
                                                             a.lastValidResultRef.key)
                                        ELSE a
                         IN [CancelTimer(saved) EXCEPT !.lastValidResultRef = Null,
                                                       !.latestResultRef = Null]
                    ELSE IF value # <<>> /\ value # previousAmount
                      THEN scheduleAutoSave(a)
                      ELSE a
         IN [b EXCEPT !.amount = value]
    ELSE s

handleSetAmount(s, value) ==
  IF value = <<>> \/ MatchesDecimal(value)
    THEN LET previousAmount == amount
             a == [s EXCEPT !.latestAmountRef = value]
             b == IF previousAmount # <<>> /\ value = <<>>
                    THEN LET saved == IF a.lastValidResultRef # Null
                                        THEN saveCalculation(a, a.lastValidResultRef.result,
                                                             a.lastValidResultRef.key)
                                        ELSE a
                         IN [CancelTimer(saved) EXCEPT !.lastValidResultRef = Null,
                                                       !.latestResultRef = Null]
                    ELSE IF value # <<>> /\ value # previousAmount
                      THEN scheduleAutoSave(a)
                      ELSE a
         IN [b EXCEPT !.amount = value]
    ELSE s

\* Faulty variant: an edit of the rate schedules no auto-save.
handleSetVatRate_NoSchedule(s, value) ==
  IF value = <<>> \/ MatchesDecimal(value)
    THEN [s EXCEPT !.latestVatRateRef = value, !.vatRate = value]
    ELSE s

handleSetVatRate(s, value) ==
  IF value = <<>> \/ MatchesDecimal(value)
    THEN LET a == [s EXCEPT !.latestVatRateRef = value, !.vatRate = value]
         IN IF amount # <<>> /\ value # vatRate THEN scheduleAutoSave(a) ELSE a
    ELSE s

\* Faulty variant: the mode is switched before the save, so the key carries the
\* new mode.
handleSetMode_KeyOfNewMode(s, newMode) ==
  LET amountNum == parseFloat(amount)
      saved == IF newMode # mode /\ amount # <<>> /\ result # Null
                  /\ ~isNaN(amountNum) /\ amountNum > 0
                 THEN saveCalculation(s, result, createCalculationKey(result, newMode))
                 ELSE s
  IN [saved EXCEPT !.latestModeRef = newMode, !.mode = newMode]

handleSetMode(s, newMode) ==
  LET saved == IF newMode # mode /\ amount # <<>> THEN saveToHistory(s) ELSE s
  IN [saved EXCEPT !.latestModeRef = newMode, !.mode = newMode]

\* ------------------------------------------------------------------ actions
\* No direct call of the arithmetic is under way.
NoCall == [fn |-> "none"]

\* A call that has not returned yet.
Pending == [mode |-> "pending"]

InitHook ==
  /\ amount = <<>>
  /\ vatRate = DEFAULT_VAT_RATE
  /\ mode = "add"
  /\ result = Null
  /\ lastSavedKeyRef = <<>>
  /\ lastValidResultRef = Null
  /\ debounceTimerRef = 0
  /\ latestAmountRef = <<>>
  /\ latestVatRateRef = DEFAULT_VAT_RATE
  /\ latestModeRef = "add"
  /\ latestResultRef = Null
  /\ history = <<>>
  /\ timers = {}
  /\ lastEvent = "init"
  /\ evCommits = <<>>
  /\ evHadTimer = FALSE
  /\ committed = <<>>
  /\ burst = 0
  /\ appended = <<>>
  /\ vatTable = VatTable

Init ==
  InitHook /\ now \in 1..MaxNow /\ call = NoCall /\ ret = Pending /\ commitBound = MaxCommits

\* The state after an event whose handler left s: the re-render follows.
Event(ev, s, b) ==
  \E r \in {Render(s, now)} :
     /\ Len(committed) < commitBound
     /\ amount' = r.amount
     /\ vatRate' = r.vatRate
     /\ mode' = r.mode
     /\ result' = r.result
     /\ lastSavedKeyRef' = r.lastSavedKeyRef
     /\ lastValidResultRef' = r.lastValidResultRef
     /\ debounceTimerRef' = r.debounceTimerRef
     /\ latestAmountRef' = r.latestAmountRef
     /\ latestVatRateRef' = r.latestVatRateRef
     /\ latestModeRef' = r.latestModeRef
     /\ latestResultRef' = r.latestResultRef
     /\ history' = r.history
     /\ timers' = r.timers
     /\ lastEvent' = ev
     /\ evCommits' = r.evCommits
     /\ evHadTimer' = (timers # {})
     /\ committed' = committed \o r.evCommits
     /\ burst' = b
     /\ UNCHANGED <<now, appended, call, ret, vatTable, commitBound>>

\* A burst is under way: the events up to now, since some other event, were
\* edits of the amount to a new non-empty text, each restarting the timer.
InBurst == lastEvent = "setAmount" /\ burst >= 1

\* burst after an event that is not such an edit: the burst it ended, if any.
BurstEnded == IF InBurst THEN burst ELSE 0

SetAmount(value) ==
  Event("setAmount", handleSetAmount(St, value),
        IF MatchesDecimal(value) /\ value # <<>> /\ value # amount
          THEN (IF ~InBurst THEN 1 ELSE IF burst < MaxBurst THEN burst + 1 ELSE burst)
          ELSE 0)

SetVatRate(value) == Event("setVatRate", handleSetVatRate(St, value), BurstEnded)

SetMode(newMode) == Event("setMode", handleSetMode(St, newMode), BurstEnded)

Blur == Event("blur", handleAmountBlur(St), BurstEnded)

KeyDown(key) ==
  Event(IF key = "Enter" THEN "enter" ELSE "key", handleAmountKeyDown(St, key), BurstEnded)

Reset == Event("reset", resetCalculator(St), BurstEnded)

\* A timeout the event loop still holds fires and runs its callback.
TimerFire(id) ==
  /\ id \in timers
  /\ Event("timer", TimerCallback(clearTimeout(St, id)), BurstEnded)

\* Faulty variant: clearing the history also forgets the last saved key.
clearHistory_ResetsKey ==
  /\ history' = <<>>
  /\ lastSavedKeyRef' = <<>>
  /\ appended' = <<>>
  /\ lastEvent' = "clearHistory"
  /\ evCommits' = <<>>
  /\ evHadTimer' = (timers # {})
  /\ burst' = BurstEnded
  /\ UNCHANGED <<amount, vatRate, mode, result, lastValidResultRef,
                 debounceTimerRef, latestAmountRef, latestVatRateRef, latestModeRef,
                 latestResultRef, timers, now, committed, call, ret, vatTable, commitBound>>

\* clearHistory of the store.
clearHistory ==
  /\ history' = <<>>
  /\ appended' = <<>>
  /\ lastEvent' = "clearHistory"
  /\ evCommits' = <<>>
  /\ evHadTimer' = (timers # {})
  /\ burst' = BurstEnded
  /\ UNCHANGED <<amount, vatRate, mode, result, lastSavedKeyRef, lastValidResultRef,
                 debounceTimerRef, latestAmountRef, latestVatRateRef, latestModeRef,
                 latestResultRef, timers, now, committed, call, ret, vatTable, commitBound>>

ClearHistory == Len(committed) < commitBound /\ clearHistory

Next ==
  \/ \E value \in AmountInputs : SetAmount(value)
  \/ \E value \in RateInputs : SetVatRate(value)
  \/ \E newMode \in Modes : SetMode(newMode)
  \/ Blur
  \/ \E key \in Keys : KeyDown(key)
  \/ Reset
  \/ \E id \in timers : TimerFire(id)
  \/ ClearHistory

Spec == Init /\ [][Next]_vars

\* The store alone, called directly.
StoreAdd(calculation) ==
  /\ Len(appended) < MaxAppends
  /\ history' = addCalculation(history, calculation)
  /\ appended' = Append(appended, calculation)
  /\ lastEvent' = "addCalculation"
  /\ evCommits' = <<calculation>>
  /\ burst' = BurstEnded
  /\ UNCHANGED <<amount, vatRate, mode, result, lastSavedKeyRef, lastValidResultRef,
                 debounceTimerRef, latestAmountRef, latestVatRateRef, latestModeRef,
                 latestResultRef, timers, now, evHadTimer, committed, call, ret, vatTable, commitBound>>

StoreClear == clearHistory

NextStore ==
  \/ \E calculation \in StoreEntries : StoreAdd(calculation)
  \/ StoreClear

SpecStore == Init /\ [][NextStore]_vars

\* Edits of the rate: the amount is set to 5 and the rate moves between 7.5,
\* 20 and the empty text; the mode may change and the field may lose the
\* focus.  The amount is edited once, so every timer started after the first
\* commit was started by an edit of the rate.
NextRate ==
  \/ SetAmount(<<"5">>)
  \/ \E value \in RateEdits : SetVatRate(value)
  \/ \E newMode \in Modes : SetMode(newMode)
  \/ Blur
  \/ \E id \in timers : TimerFire(id)

SpecRate == Init /\ [][NextRate]_vars

\* Repeated results: the amount is 5 or empty, the mode changes and the
\* field loses the focus; the run goes on until MaxDedupCommits commits.
InitDedup ==
  InitHook /\ now = 1 /\ call = NoCall /\ ret = Pending /\ commitBound = MaxDedupCommits

NextDedup ==
  \/ \E value \in {<<>>, <<"5">>} : SetAmount(value)
  \/ \E newMode \in Modes : SetMode(newMode)
  \/ Blur
  \/ \E id \in timers : TimerFire(id)

SpecDedup == InitDedup /\ [][NextDedup]_vars

\* ------------------------------------------------------ the arithmetic alone
\* roundToDecimal is called with x + y, both decimal literals in thousandths.
Ties == {125 + 250 * j : j \in 0..MaxTie}

RoundArgs ==
  {<<s * (t + d), 0>> : s \in {-1, 1}, t \in Ties, d \in {-1, 0, 1}}
    \cup {<<10 * c + 5, 0>> : c \in 0..MaxHalfCent}
    \cup {<<100, 200>>, <<0, 0>>, <<1, 0>>}

\* Amounts: below zero, the cents up to MaxCents, and amounts of the tests
\* and of half-cent products at the rates below.
Prices ==
  {-1000, -10} \cup {10 * c : c \in 0..MaxCents}
    \cup {5, 1006, 2610, 4270, 27400, 29000, 99990, 100000}

\* Rates: below the range, its two ends, 7.5 and 20 inside, above the range.
Rates == {-1, 0, 7500, 20000, 100 * Milli, 100 * Milli + 1}

\* Totals handed to extractVat beside the amounts above: those of the tests
\* (107.49 and the restaurant bill of 12900).
Totals == {107490, 12900 * Milli}

Calls ==
  {[fn |-> "roundToDecimal", x |-> a[1], y |-> a[2], prev |-> Null] : a \in RoundArgs}
    \cup {[fn |-> f, x |-> p, y |-> r, prev |-> Null] :
            f \in {"addVat", "extractVat"}, p \in Prices, r \in Rates}
    \cup {[fn |-> "extractVat", x |-> p, y |-> r, prev |-> Null] :
            p \in Totals, r \in Rates}

\* The clock plays no part in the arithmetic: the calls are made at time 1.
InitMath ==
  InitHook /\ now = 1 /\ call \in Calls /\ ret = Pending /\ commitBound = MaxCommits

Returns(c, r) ==
  /\ call' = c
  /\ ret' = r
  /\ UNCHANGED <<amount, vatRate, mode, result, lastSavedKeyRef, lastValidResultRef,
                 debounceTimerRef, latestAmountRef, latestVatRateRef, latestModeRef,
                 latestResultRef, history, timers, now, lastEvent, evCommits,
                 evHadTimer, committed, burst, appended, vatTable, commitBound>>

CallRoundToDecimal ==
  /\ call.fn = "roundToDecimal" /\ ret = Pending
  /\ Returns(call, roundToDecimal(FAdd(Double(call.x, Milli), Double(call.y, Milli)), 2))

CallAddVat ==
  /\ call.fn = "addVat" /\ ret = Pending
  /\ Returns(call, addVat(call.x, call.y, now))

CallExtractVat ==
  /\ call.fn = "extractVat" /\ ret = Pending
  /\ Returns(call, extractVat(call.x, call.y, now))

\* The total addVat returned is handed to extractVat at the same rate.
CallRoundTrip ==
  /\ call.fn = "addVat" /\ ret \notin {Pending, Thrown}
  /\ Returns([fn |-> "extractVat", x |-> ret.priceIncludingVat, y |-> call.y, prev |-> ret],
             extractVat(ret.priceIncludingVat, call.y, now))

NextMath ==
  \/ CallRoundToDecimal
  \/ CallAddVat
  \/ CallExtractVat
  \/ CallRoundTrip

SpecMath == InitMath /\ [][NextMath]_vars

\* ------------------------------------------------------------------- export
\* The history panel's export (utils/export.ts, HistoryList.tsx).  A text is
\* a sequence of strings in which every comma and every newline is a string
\* of its own.
MaxRows == 3

MsPerMinute == 60000
MsPerDay == 86400000

Pad2(n) == IF n < 10 THEN <<"0">> \o NatChars(n) ELSE NatChars(n)

\* formatDateTime: month, day, year, hour of twelve, minute and AM or PM as
\* the function's documentation and the README print them ("Jan 11, 2026,
\* 3:45 PM"), in UTC.  The clock of the model stays within January 1970.
formatDateTime(timestamp) ==
  LET minutes == (timestamp \div MsPerMinute) % 1440
      hours == minutes \div 60
  IN <<"Jan", " ">> \o NatChars(1 + timestamp \div MsPerDay) \o <<",", " ">>
       \o NatChars(1970) \o <<",", " ">>
       \o NatChars(IF hours % 12 = 0 THEN 12 ELSE hours % 12) \o <<":">>
       \o Pad2(minutes % 60) \o <<" ", IF hours < 12 THEN "AM" ELSE "PM">>

\* new Date(timestamp).toISOString().split('T')[0]
ISODate(timestamp) ==
  <<"1970", "-", "01", "-">> \o Pad2(1 + timestamp \div MsPerDay)

\* Array.prototype.join
RECURSIVE join(_, _)
join(parts, sep) ==
  IF parts = <<>> THEN <<>>
  ELSE IF Len(parts) = 1 THEN parts[1]
  ELSE parts[1] \o <<sep>> \o join(Tail(parts), sep)

\* String.prototype.split: what a reader of the file does with a line.
RECURSIVE split(_, _)
split(text, sep) ==
  IF \A i \in 1..Len(text) : text[i] # sep THEN <<text>>
  ELSE LET i == CHOOSE j \in 1..Len(text) :
                  text[j] = sep /\ \A k \in 1..(j - 1) : text[k] # sep
       IN <<SubSeq(text, 1, i - 1)>> \o split(SubSeq(text, i + 1, Len(text)), sep)

headers ==
  <<<<"Date & Time">>, <<"Mode">>, <<"VAT Rate (%)">>, <<"Price Excl. VAT">>,
    <<"VAT Amount">>, <<"Price Incl. VAT">>>>

convertToCSV(h) ==
  LET rows == [i \in 1..Len(h) |->
                 <<formatDateTime(h[i].timestamp),
                   IF h[i].mode = "add" THEN <<"Add VAT">> ELSE <<"Extract VAT">>,
                   toFixed2(h[i].vatRate),
                   toFixed2(h[i].priceExcludingVat),
                   toFixed2(h[i].vatAmount),
                   toFixed2(h[i].priceIncludingVat)>>]
  IN join(<<join(headers, ",")>> \o [i \in 1..Len(rows) |-> join(rows[i], ",")], "\n")

\* What a call did: the alerts shown, the warnings logged to the console,
\* the CSV texts built and the files handed to the browser as downloads.
NoEffects == [mode |-> "export", alerts |-> <<>>, warns |-> <<>>, built |-> <<>>, downloads |-> <<>>]

downloadCSV(fx, csvContent, filename) ==
  [fx EXCEPT !.downloads = Append(@, [csvContent |-> csvContent, filename |-> filename])]

\* Faulty variant: the empty history is exported like any other.
exportHistoryAsCSV_NoCheck(fx, h, filename, today) ==
  LET csvContent == convertToCSV(h)
      defaultFilename == <<"vat-calculations-">> \o ISODate(today) \o <<".csv">>
  IN downloadCSV([fx EXCEPT !.built = Append(@, csvContent)], csvContent,
                 IF filename # <<>> THEN filename ELSE defaultFilename)

\* filename is <<>> when the argument is left out (or is the empty string).
exportHistoryAsCSV(fx, h, filename, today) ==
  IF Len(h) = 0 THEN [fx EXCEPT !.warns = Append(@, "No history to export")]
  ELSE LET csvContent == convertToCSV(h)
           defaultFilename == <<"vat-calculations-">> \o ISODate(today) \o <<".csv">>
       IN downloadCSV([fx EXCEPT !.built = Append(@, csvContent)], csvContent,
                      IF filename # <<>> THEN filename ELSE defaultFilename)

\* handleExport of the history panel.
handleExport(fx, h, today) ==
  IF Len(h) = 0 THEN [fx EXCEPT !.alerts = Append(@, "No history to export")]
  ELSE exportHistoryAsCSV(fx, h, <<>>, today)

\* Entries of both modes, committed in the first minute of the clock and on
\* the eleventh day at 1:05 PM.
ExportTimes == {1, 10 * MsPerDay + 785 * MsPerMinute}

ExportEntries == {[e EXCEPT !.timestamp = t] : e \in StoreEntries, t \in ExportTimes}

Filenames == {<<>>, <<"my.csv">>}

\* An export sees the history at the time of the call.
Exports(fn, filename, fx) ==
  Returns([fn |-> fn, history |-> history, filename |-> filename], fx)

ExportAdd(calculation) ==
  /\ ret = Pending
  /\ Len(history) < MaxRows
  /\ StoreAdd(calculation)

ExportClear == ret = Pending /\ clearHistory

HandleExport ==
  /\ ret = Pending
  /\ Exports("handleExport", <<>>, handleExport(NoEffects, history, now))

CallExportHistoryAsCSV(filename) ==
  /\ ret = Pending
  /\ Exports("exportHistoryAsCSV", filename,
             exportHistoryAsCSV(NoEffects, history, filename, now))

CallConvertToCSV ==
  /\ ret = Pending
  /\ Exports("convertToCSV", <<>>, [NoEffects EXCEPT !.built = <<convertToCSV(history)>>])

NextExport ==
  \/ \E calculation \in ExportEntries : ExportAdd(calculation)
  \/ ExportClear
  \/ HandleExport
  \/ \E filename \in Filenames : CallExportHistoryAsCSV(filename)
  \/ CallConvertToCSV

SpecExport == Init /\ [][NextExport]_vars

\* ------------------------------------------------------- arrays of the store
\* A JavaScript array is an object: the store keeps a reference to its history
\* array and getHistory hands that same reference out.  Here ret is the
\* memory, [store |-> the address of the store's array, heap |-> the arrays
\* by address], and call.held is the address a caller of getHistory holds, 0
\* when it holds none.  An array no one refers to is collected: its cell
\* holds <<>> again.
Addresses == {1, 2, 3}

NoReference == [fn |-> "none", held |-> 0]

\* Faulty variant: the store's own array is changed in place.
setHistory_InPlace(m, held, value) ==
  [store |-> m.store, heap |-> [m.heap EXCEPT ![m.store] = value]]

\* set({ history: value }) with an array built by the call: the array is a new
\* object, and the store refers to it from then on.
setHistory(m, held, value) ==
  LET a == CHOOSE a \in Addresses :
             /\ a \notin {m.store, held}
             /\ \A b \in Addresses : b \notin {m.store, held} => a <= b
  IN [store |-> a,
      heap |-> [i \in Addresses |->
                  IF i = a THEN value ELSE IF i = held THEN m.heap[i] ELSE <<>>]]

\* The entries added: both while the history is short, one afterwards, until
\* the oldest entries are evicted.
RefEntries ==
  IF Len(history) < MaxRows THEN StoreEntries
  ELSE {CHOOSE e \in StoreEntries : e.mode = "add"}

InitRefs ==
  /\ InitHook
  /\ now = 1
  /\ commitBound = MaxCommits
  /\ call = NoReference
  /\ ret = [store |-> 1, heap |-> [i \in Addresses |-> <<>>]]

\* const h = getHistory(): the caller holds the store's array.
GetHistory ==
  /\ call' = [fn |-> "getHistory", held |-> ret.store]
  /\ ret' = [ret EXCEPT !.heap = [i \in Addresses |-> IF i = ret.store THEN ret.heap[i] ELSE <<>>]]
  /\ lastEvent' = "getHistory"
  /\ UNCHANGED <<amount, vatRate, mode, result, lastSavedKeyRef, lastValidResultRef,
                 debounceTimerRef, latestAmountRef, latestVatRateRef, latestModeRef,
                 latestResultRef, history, timers, now, evCommits, evHadTimer,
                 committed, burst, appended, vatTable, commitBound>>

RefAdd(calculation) ==
  /\ Len(appended) < MaxAppends
  /\ \E m \in {setHistory(ret, call.held,
                           addCalculation(ret.heap[ret.store], calculation))} :
        /\ ret' = m
        /\ history' = m.heap[m.store]
  /\ appended' = Append(appended, calculation)
  /\ lastEvent' = "addCalculation"
  /\ evCommits' = <<calculation>>
  /\ burst' = BurstEnded
  /\ UNCHANGED <<amount, vatRate, mode, result, lastSavedKeyRef, lastValidResultRef,
                 debounceTimerRef, latestAmountRef, latestVatRateRef, latestModeRef,
                 latestResultRef, timers, now, evHadTimer, committed, call,
                 vatTable, commitBound>>

RefClear ==
  /\ \E m \in {setHistory(ret, call.held, <<>>)} :
        /\ ret' = m
        /\ history' = m.heap[m.store]
  /\ appended' = <<>>
  /\ lastEvent' = "clearHistory"
  /\ evCommits' = <<>>
  /\ evHadTimer' = (timers # {})
  /\ burst' = BurstEnded
  /\ UNCHANGED <<amount, vatRate, mode, result, lastSavedKeyRef, lastValidResultRef,
                 debounceTimerRef, latestAmountRef, latestVatRateRef, latestModeRef,
                 latestResultRef, timers, now, committed, call, vatTable, commitBound>>

NextRefs ==
  \/ GetHistory
  \/ \E calculation \in RefEntries : RefAdd(calculation)
  \/ RefClear

SpecRefs == InitRefs /\ [][NextRefs]_vars

\* ----------------------------------------------------------- rejected edits
\* Edits of the two fields, told apart by whether the text typed passes the
\* pattern of the handlers: lastEvent names an edit whose text fails it.
Rejected(value) == value # <<>> /\ ~MatchesDecimal(value)

EditAmount(value) ==
  Event(IF Rejected(value) THEN "rejectedAmount" ELSE "setAmount",
        handleSetAmount(St, value),
        IF MatchesDecimal(value) /\ value # <<>> /\ value # amount
          THEN (IF ~InBurst THEN 1 ELSE IF burst < MaxBurst THEN burst + 1 ELSE burst)
          ELSE 0)

EditVatRate(value) ==
  Event(IF Rejected(value) THEN "rejectedVatRate" ELSE "setVatRate",
        handleSetVatRate(St, value), BurstEnded)

NextEdit ==
  \/ \E value \in AmountInputs : EditAmount(value)
  \/ \E value \in RateInputs : EditVatRate(value)
  \/ \E newMode \in Modes : SetMode(newMode)
  \/ Blur
  \/ \E id \in timers : TimerFire(id)

SpecEdit == Init /\ [][NextEdit]_vars

\* ------------------------------------------------------ the user goes quiet
\* The user acts for a while and then produces no further event; from then on
\* only the timeouts the event loop still holds run.  call tells whether the
\* user has gone quiet.
Quiet == [fn |-> "quiet"]

UserLeaves ==
  /\ call = NoCall
  /\ call' = Quiet
  /\ UNCHANGED <<amount, vatRate, mode, result, lastSavedKeyRef, lastValidResultRef,
                 debounceTimerRef, latestAmountRef, latestVatRateRef, latestModeRef,
                 latestResultRef, history, timers, now, lastEvent, evCommits,
                 evHadTimer, committed, burst, appended, ret, vatTable, commitBound>>

NextLive ==
  \/ call = NoCall /\ \E value \in AmountInputs : SetAmount(value)
  \/ call = NoCall /\ \E value \in RateInputs : SetVatRate(value)
  \/ call = NoCall /\ \E newMode \in Modes : SetMode(newMode)
  \/ call = NoCall /\ Blur
  \/ call = NoCall /\ \E key \in Keys : KeyDown(key)
  \/ call = NoCall /\ Reset
  \/ call = NoCall /\ ClearHistory
  \/ UserLeaves
  \/ \E id \in timers : TimerFire(id)

\* The event loop runs every timeout that falls due.
SpecLive == Init /\ [][NextLive]_vars /\ WF_vars(\E id \in timers : TimerFire(id))

\* ------------------------------------------------------------------ claims
\* The ContentKey of an entry: its own amounts, rate and mode.
ContentKey(e) == createCalculationKey(e, e.mode)

\* The amount text parses to a number above zero.
AmountPositive == ~isNaN(parseFloat(amount)) /\ parseFloat(amount) > 0

\* The rate text passes the validation gate.
RateValid ==
  /\ vatRate # <<>>
  /\ ~isNaN(parseFloat(vatRate))
  /\ parseFloat(vatRate) >= 0
  /\ parseFloat(vatRate) <= 100 * Milli

\* C1: no two entries committed one after the other have the same
\* ContentKey (priceExcludingVat, vatRate, mode and priceIncludingVat of the
\* entries themselves).
C1_NoConsecutiveDuplicate ==
  \A i \in 1..(Len(committed) - 1) :
    ContentKey(committed[i]) # ContentKey(committed[i + 1])

\* C2: every entry committed, on whatever path, was computed from an amount
\* strictly above zero.
C2_CommittedFromPositiveAmount ==
  \A i \in 1..Len(committed) : committed[i].src > 0

\* C3: an edit of the amount to a non-empty text commits nothing, and when
\* the timer fires right after a burst of such edits, with the last amount
\* above zero, the rate valid and the key of its result not the last saved
\* one, the event commits exactly that result and leaves no timer pending.
C3_BurstCommitsOnce ==
  [][/\ (lastEvent' = "setAmount" /\ amount' # <<>>) => evCommits' = <<>>
     /\ (InBurst /\ lastEvent' = "timer" /\ AmountPositive /\ RateValid
           /\ createCalculationKey(result, mode) # lastSavedKeyRef)
        => /\ result = calculateVat(parseFloat(amount), parseFloat(vatRate), mode, result.timestamp)
           /\ evCommits' = <<result>>
           /\ history' = addCalculation(history, result)
           /\ timers' = {}
           /\ debounceTimerRef' = 0]_vars

\* C3 witness: the timer fired after a burst of two edits and committed the
\* result of the amount shown.
C3_Witness ==
  /\ lastEvent = "timer"
  /\ burst >= 2
  /\ evCommits = <<result>>
  /\ AmountPositive
  /\ timers = {}

\* C4: blur or Enter with a result displayed, the amount above zero and the
\* key of the result not the last saved one appends that result within the
\* event and leaves no timer pending.
C4_BlurEnterCommits ==
  [][(lastEvent' \in {"blur", "enter"} /\ result # Null /\ AmountPositive
        /\ createCalculationKey(result, mode) # lastSavedKeyRef)
     => /\ evCommits' = <<result>>
        /\ history' = addCalculation(history, result)
        /\ lastSavedKeyRef' = createCalculationKey(result, mode)
        /\ timers' = {}
        /\ debounceTimerRef' = 0]_vars

\* C4 witness: a blur or Enter cancelled a pending timer and committed.
C4_Witness ==
  /\ lastEvent \in {"blur", "enter"}
  /\ evHadTimer
  /\ evCommits = <<result>>
  /\ timers = {}

\* C5: an edit of the amount from a non-empty text to the empty one, with a
\* last valid result, commits that result within the event unless its key is
\* the last saved one, leaves no timer pending and no last valid result.
C5_ClearCommitsLastValid ==
  [][(lastEvent' = "setAmount" /\ amount # <<>> /\ amount' = <<>>
        /\ lastValidResultRef # Null)
     => /\ IF lastValidResultRef.key = lastSavedKeyRef
             THEN evCommits' = <<>> /\ history' = history
             ELSE /\ evCommits' = <<lastValidResultRef.result>>
                  /\ history' = addCalculation(history, lastValidResultRef.result)
        /\ timers' = {}
        /\ debounceTimerRef' = 0
        /\ lastValidResultRef' = Null]_vars

\* C5 witness: clearing the amount committed the last valid result and
\* cancelled the pending timer.
C5_Witness ==
  /\ lastEvent = "setAmount"
  /\ amount = <<>>
  /\ Len(evCommits) = 1
  /\ evHadTimer
  /\ timers = {}
  /\ lastValidResultRef = Null

\* C6: a change to the other mode, with the amount non-empty and above zero
\* and a result displayed, commits nothing but that result, which carries
\* the old mode in its mode field and in its key.
C6_ModeChangeCommitsOldMode ==
  [][(lastEvent' = "setMode" /\ mode' # mode /\ amount # <<>> /\ result # Null
        /\ AmountPositive)
     => /\ result.mode = mode
        /\ IF createCalculationKey(result, mode) = lastSavedKeyRef
             THEN evCommits' = <<>>
             ELSE /\ evCommits' = <<result>>
                  /\ history' = addCalculation(history, result)
                  /\ lastSavedKeyRef' = createCalculationKey(result, mode)]_vars

\* C6 witness: a mode change committed an entry of the mode left behind.
C6_Witness ==
  /\ lastEvent = "setMode"
  /\ Len(evCommits) = 1
  /\ evCommits[1].mode # mode
  /\ lastSavedKeyRef = ContentKey(evCommits[1])

\* C7: a change to the other mode made while a timer is pending leaves no
\* timer pending and commits at most one entry.
C7_ModeChangeCancelsTimer ==
  [][(lastEvent' = "setMode" /\ mode' # mode /\ timers # {})
     => (timers' = {} /\ debounceTimerRef' = 0 /\ Len(evCommits') <= 1)]_vars

\* C8: reset with a result displayed and the amount above zero commits that
\* result unless its key is the last saved one, leaves no timer pending and
\* sets the amount empty, the rate 7.5, the mode add and no result.
C8_ResetCommitsThenClears ==
  [][(lastEvent' = "reset" /\ result # Null /\ AmountPositive)
     => /\ IF createCalculationKey(result, mode) = lastSavedKeyRef
             THEN evCommits' = <<>> /\ history' = history
             ELSE evCommits' = <<result>> /\ history' = addCalculation(history, result)
        /\ timers' = {}
        /\ debounceTimerRef' = 0
        /\ amount' = <<>>
        /\ vatRate' = <<"7", ".", "5">>
        /\ mode' = "add"
        /\ result' = Null]_vars

\* C8 witness: a reset committed the displayed result, cancelled the pending
\* timer and cleared the inputs.
C8_Witness ==
  /\ lastEvent = "reset"
  /\ Len(evCommits) = 1
  /\ evHadTimer
  /\ timers = {}
  /\ amount = <<>>
  /\ result = Null

\* C9: the history never holds more entries than the capacity.
C9_HistoryWithinCapacity == Len(history) <= maxHistorySize

\* C9 witness: the store is full after more appends than the capacity.
C9_Witness == Len(history) = maxHistorySize /\ Len(appended) > maxHistorySize

\* C10: after n appends to an empty store the history is the min(n, capacity)
\* entries appended last, the newest first.
C10_HistoryIsLatestAppends ==
  /\ Len(history) = (IF Len(appended) < maxHistorySize THEN Len(appended) ELSE maxHistorySize)
  /\ \A i \in 1..Len(history) : history[i] = appended[Len(appended) + 1 - i]

\* C10 witness: entries were evicted and the ones kept are not all the same.
C10_Witness ==
  /\ Len(appended) > maxHistorySize
  /\ history[1] # history[2]
  /\ appended[1] # history[maxHistorySize]

\* The amount and rate texts of the current render fail the validation gate
\* of performCalculation: empty, not a number or out of range.
GateFails ==
  \/ amount = <<>>
  \/ isNaN(parseFloat(amount))
  \/ parseFloat(amount) < 0
  \/ ~RateValid

\* C15: while the amount or the rate fails the validation gate, a timer
\* firing, a blur, Enter, a mode change or a reset commits nothing.
C15_NoCommitWhileGateFails ==
  [][(GateFails /\ lastEvent' \in {"timer", "blur", "enter", "setMode", "reset"})
     => (evCommits' = <<>> /\ history' = history)]_vars

\* The timer pending is the one the hook's ref names.
TimerIsRef == timers = (IF debounceTimerRef = 0 THEN {} ELSE {debounceTimerRef})

\* C16: at most one debounce timer is outstanding, the one debounceTimerRef
\* names; an edit that schedules an auto-save leaves exactly one.
C16_OneTimerOutstanding == Cardinality(timers) <= 1 /\ TimerIsRef

\* C16 witness: an edit made while a timer was pending scheduled a new one
\* and one timer is outstanding.
C16_Witness ==
  /\ lastEvent \in {"setAmount", "setVatRate"}
  /\ evHadTimer
  /\ Cardinality(timers) = 1
  /\ debounceTimerRef \in timers

\* A direct call of addVat or extractVat has returned a result.
VatReturned == call.fn \in {"addVat", "extractVat"} /\ ret \notin {Pending, Thrown}

\* extractVat has returned for the total an addVat before it returned.
RoundTripped == call.fn = "extractVat" /\ call.prev # Null /\ ret # Pending

\* C11: every result addVat or extractVat returns, for an amount of zero or
\* more and a rate from 0 to 100, has priceExcludingVat + vatAmount equal to
\* priceIncludingVat, to the cent.
C11_PartsSumToTotal ==
  VatReturned =>
    /\ call.x >= 0 /\ call.y >= 0 /\ call.y <= 100 * Milli
    /\ ret.priceExcludingVat + ret.vatAmount = ret.priceIncludingVat

\* C11 witness: addVat and then extractVat returned results with a VAT above
\* zero that is not a whole amount.
C11_Witness ==
  /\ RoundTripped
  /\ ret # Thrown
  /\ call.prev.vatAmount > 0
  /\ ret.vatAmount > 0
  /\ ret.vatAmount % Milli # 0

\* C12: for a price of zero or more with at most two decimals and a rate
\* from 0 to 100, extractVat of the total addVat returned, at the same rate,
\* returns the price as priceExcludingVat and the VAT and total of addVat.
C12_RoundTrip ==
  (RoundTripped /\ call.prev.src % 10 = 0) =>
    /\ ret # Thrown
    /\ ret.priceExcludingVat = call.prev.src
    /\ ret.vatAmount = call.prev.vatAmount
    /\ ret.priceIncludingVat = call.prev.priceIncludingVat

\* C12 witness: a round trip of a price above zero at a rate above zero whose
\* VAT had to be rounded.
C12_Witness ==
  /\ RoundTripped
  /\ call.prev.src % 10 = 0
  /\ call.prev.src > 0
  /\ call.y > 0
  /\ (call.prev.src * call.y) % (1000 * Milli) # 0
  /\ ret.priceExcludingVat = call.prev.src

\* A direct call of addVat or extractVat, not one of a round trip, has
\* returned or thrown.
VatCalled == call.fn \in {"addVat", "extractVat"} /\ call.prev = Null /\ ret # Pending

\* C13: addVat with a price below zero and extractVat with a total below
\* zero throw and return no result, whatever the rate.
C13_NegativeAmountThrows == (VatCalled /\ call.x < 0) => ret = Thrown

\* C13 witness: a call with an amount below zero and a rate inside the range
\* has thrown.
C13_Witness ==
  /\ VatCalled
  /\ call.x < 0
  /\ call.y >= 0 /\ call.y <= 100 * Milli
  /\ ret = Thrown

\* C14: with an amount of zero or more, addVat and extractVat throw for every
\* rate below 0 and above 100 and return a result for every rate from 0 to
\* 100, both ends included.
C14_RateRange ==
  (VatCalled /\ call.x >= 0) =>
    (ret = Thrown) = (call.y < 0 \/ call.y > 100 * Milli)

\* C14 witness: a call at the rate 100 has returned a result whose VAT is
\* the amount itself.
C14_Witness ==
  /\ VatCalled
  /\ call.fn = "addVat"
  /\ call.x > 0
  /\ call.y = 100 * Milli
  /\ ret # Thrown
  /\ ret.vatAmount = ret.priceExcludingVat

\* A direct call of roundToDecimal with a single literal has returned.
RoundReturned == call.fn = "roundToDecimal" /\ call.y = 0 /\ ret # Pending

\* The magnitude of the argument is an exact half-cent tie (its double is
\* the tie itself: an odd number of eighths).
ArgIsTie == (IF call.x < 0 THEN 0 - call.x ELSE call.x) \in Ties

\* C17 as stated: a tie is rounded to the neighbour farther from zero,
\* below zero as above it.
C17_TiesAwayFromZero ==
  (RoundReturned /\ ArgIsTie) =>
    ToMilli(ret) = (IF call.x < 0 THEN call.x - 5 ELSE call.x + 5)

\* C17: a tie is rounded to the upper neighbour, whatever its sign: for a
\* value below zero that is the neighbour nearer to zero.
C17_TiesGoUp == (RoundReturned /\ ArgIsTie) => ToMilli(ret) = call.x + 5

\* C17 witness: a tie below zero came back as its neighbour nearer to zero.
C17_Witness ==
  /\ RoundReturned
  /\ ArgIsTie
  /\ call.x < 0
  /\ ToMilli(ret) = call.x + 5
  /\ ToMilli(ret) > call.x

\* C18: roundToDecimal(-10.125) is -10.12, roundToDecimal(-10.126) is -10.13
\* and roundToDecimal(-10.124) is -10.12.
C18_NegativeHalfCent ==
  RoundReturned =>
    /\ call.x = -10125 => ret = Double(-10120, Milli)
    /\ call.x = -10126 => ret = Double(-10130, Milli)
    /\ call.x = -10124 => ret = Double(-10120, Milli)

\* C18 witness: roundToDecimal(-10.125) has returned -10.12.
C18_Witness == RoundReturned /\ call.x = -10125 /\ ToMilli(ret) = -10120

\* The double nearest to the literal k thousandths lies below it.
StoredBelow(k) ==
  LET d == Double(k, Milli)
  IN d.e < 0 /\ BCmp(BMulSmall(d.m, Milli, 0), BShl(BFromNat(k), 0 - d.e)) < 0

\* C19: roundToDecimal(0.1 + 0.2) is the double 0.3, and a value written
\* with a 5 in the third decimal whose double lies below it is still rounded
\* up to the next cent.
C19_DriftCorrected ==
  (call.fn = "roundToDecimal" /\ ret # Pending) =>
    /\ (call.x = 100 /\ call.y = 200) => ret = Double(300, Milli)
    /\ (call.y = 0 /\ call.x > 0 /\ call.x % 10 = 5 /\ StoredBelow(call.x))
         => ToMilli(ret) = call.x + 5

\* c cents is the cent value nearest to price * rate / 100, the upper one at
\* a tie, with price and rate in thousandths and the product taken exactly:
\* (2c - 1) * 10^6 <= 2 * price * rate < (2c + 1) * 10^6.
NearestCentOfVat(c, price, rate) ==
  LET twice == BMulSmall(BMul(BFromNat(price), BFromNat(rate)), 2, 0)
      million == BFromNat(Milli * Milli)
  IN /\ c >= 0
     /\ c = 0 \/ BCmp(BMul(BFromNat(2 * c - 1), million), twice) <= 0
     /\ BCmp(twice, BMul(BFromNat(2 * c + 1), million)) < 0

\* C20: for a price of zero or more and a rate from 0 to 100 addVat returns
\* the price rounded to the cent as priceExcludingVat, price * rate / 100
\* of the unrounded price, rounded once to the cent, as vatAmount, their sum
\* as priceIncludingVat, the mode add and the rate; 99.99 at 7.5 gives the
\* VAT 7.50 and the total 107.49, 0.01 at 7.5 the VAT 0.00.
C20_AddVatResult ==
  (call.fn = "addVat" /\ call.prev = Null /\ ret \notin {Pending, Thrown}) =>
    /\ ret.priceExcludingVat = 10 * ((call.x + 5) \div 10)
    /\ ret.vatAmount % 10 = 0
    /\ NearestCentOfVat(ret.vatAmount \div 10, call.x, call.y)
    /\ ret.priceIncludingVat = ret.priceExcludingVat + ret.vatAmount
    /\ ret.mode = "add"
    /\ ret.vatRate = call.y
    /\ (call.x = 99990 /\ call.y = 7500)
         => (ret.vatAmount = 7500 /\ ret.priceIncludingVat = 107490)
    /\ (call.x = 10 /\ call.y = 7500) => ret.vatAmount = 0

\* c cents is the cent value nearest to total / (1 + rate / 100), the upper
\* one at a tie, with total and rate in thousandths and the quotient taken
\* exactly: (2c - 1) * (10^5 + rate) <= 2 * 10^4 * total < (2c + 1) * (10^5 + rate).
NearestCentOfNet(c, total, rate) ==
  LET scaled == BMulSmall(BFromNat(total), 20 * Milli, 0)
      divisor == BFromNat(100 * Milli + rate)
  IN /\ c >= 0
     /\ c = 0 \/ BCmp(BMul(BFromNat(2 * c - 1), divisor), scaled) <= 0
     /\ BCmp(scaled, BMul(BFromNat(2 * c + 1), divisor)) < 0

\* C21: for a total of zero or more and a rate from 0 to 100 extractVat
\* returns the total rounded to the cent as priceIncludingVat,
\* total / (1 + rate / 100) rounded to the cent as priceExcludingVat, their
\* difference as vatAmount, the mode extract and the rate; 12900 at 7.5
\* gives 12000.00 and 900.00, 107.49 at 7.5 gives 99.99 and 7.50.
C21_ExtractVatResult ==
  (call.fn = "extractVat" /\ call.prev = Null /\ ret \notin {Pending, Thrown}) =>
    /\ ret.priceIncludingVat = 10 * ((call.x + 5) \div 10)
    /\ ret.priceExcludingVat % 10 = 0
    /\ NearestCentOfNet(ret.priceExcludingVat \div 10, call.x, call.y)
    /\ ret.vatAmount = ret.priceIncludingVat - ret.priceExcludingVat
    /\ ret.mode = "extract"
    /\ ret.vatRate = call.y
    /\ (call.x = 12900 * Milli /\ call.y = 7500)
         => (ret.priceExcludingVat = 12000 * Milli /\ ret.vatAmount = 900 * Milli)
    /\ (call.x = 107490 /\ call.y = 7500)
         => (ret.priceExcludingVat = 99990 /\ ret.vatAmount = 7500)

\* A result as the arithmetic returns it for valid arguments: rate from 0 to
\* 100, the three amounts zero or more, whole cents, the parts adding up.
ValidResult(e) ==
  /\ e \notin {Null, Thrown, Pending}
  /\ e.mode \in Modes
  /\ e.vatRate >= 0 /\ e.vatRate <= 100 * Milli
  /\ \A x \in {e.priceExcludingVat, e.vatAmount, e.priceIncludingVat} :
        x >= 0 /\ x % 10 = 0
  /\ e.priceExcludingVat + e.vatAmount = e.priceIncludingVat

\* C22: every entry the history holds, and every entry the controller ever
\* committed, is a valid, rounded result; no null or failed calculation is
\* stored.
C22_HistoryHoldsValidResults ==
  /\ \A i \in 1..Len(history) : ValidResult(history[i])
  /\ \A i \in 1..Len(committed) : ValidResult(committed[i])

\* C22 witness: the history holds a result of each mode whose VAT had to be
\* rounded to the cent (5 at 7.5: 0.375 and 0.3488...).
C22_Witness ==
  /\ Len(history) = 2
  /\ history[1].mode # history[2].mode
  /\ \A i \in 1..2 : history[i].vatAmount > 0 /\ history[i].vatAmount < history[i].src

\* An export of the history panel, or a direct call of exportHistoryAsCSV,
\* has returned.
Exported == call.fn \in {"handleExport", "exportHistoryAsCSV"} /\ ret # Pending

\* C23: an export of an empty history builds no CSV text and downloads no
\* file; exportHistoryAsCSV logs the warning and handleExport shows the alert
\* that there is no history to export.
C23_EmptyExportsNothing ==
  (Exported /\ call.history = <<>>) =>
    /\ ret.built = <<>>
    /\ ret.downloads = <<>>
    /\ call.fn = "handleExport" => ret.alerts = <<"No history to export">>
    /\ call.fn = "exportHistoryAsCSV" => ret.warns = <<"No history to export">>

\* C23 witness: the panel's export ran on a history emptied by clearHistory
\* and showed the alert.
C23_Witness ==
  /\ Exported
  /\ call.fn = "handleExport"
  /\ call.history = <<>>
  /\ lastEvent = "clearHistory"
  /\ ret.alerts # <<>>

\* C24: the text convertToCSV returns is, split at the newlines, the header
\* line followed by one line per entry in the order of the history, and
\* every line, split at the commas, has exactly six fields: for an entry the
\* display timestamp, the mode label, the rate and the three amounts with
\* two decimals.
C24_CsvSixFieldsPerLine ==
  (call.fn = "convertToCSV" /\ ret # Pending) =>
    LET lines == split(ret.built[1], "\n")
    IN /\ Len(lines) = 1 + Len(call.history)
       /\ lines[1] = join(headers, ",")
       /\ Len(split(lines[1], ",")) = 6
       /\ \A i \in 1..Len(call.history) :
            LET fields == split(lines[i + 1], ",")
                item == call.history[i]
            IN /\ Len(fields) = 6
               /\ fields[1] = formatDateTime(item.timestamp)
               /\ fields[2] = (IF item.mode = "add" THEN <<"Add VAT">> ELSE <<"Extract VAT">>)
               /\ fields[3] = toFixed2(item.vatRate)
               /\ fields[4] = toFixed2(item.priceExcludingVat)
               /\ fields[5] = toFixed2(item.vatAmount)
               /\ fields[6] = toFixed2(item.priceIncludingVat)

\* C25: lastSavedKeyRef is empty or the ContentKey of the entry the
\* controller committed last; an event that commits sets it to the key of the
\* entry it appended last, and an event of the controller that commits
\* nothing leaves it and the history as they were.
C25_LastSavedKeyIsKeyOfLastCommit ==
  [][/\ lastSavedKeyRef' = <<>>
          \/ (committed' # <<>> /\ lastSavedKeyRef' = ContentKey(committed'[Len(committed')]))
     /\ evCommits' # <<>> => lastSavedKeyRef' = ContentKey(evCommits'[Len(evCommits')])
     /\ (evCommits' = <<>> /\ lastEvent' # "clearHistory")
          => (lastSavedKeyRef' = lastSavedKeyRef /\ history' = history)]_vars

\* C26: a reset leaves the auto-save state empty: no last saved key, no last
\* valid result and no timer pending.
C26_ResetEmptiesAutoSaveState ==
  [][lastEvent' = "reset"
     => /\ lastSavedKeyRef' = <<>>
        /\ lastValidResultRef' = Null
        /\ timers' = {}
        /\ debounceTimerRef' = 0]_vars

\* calculateVat of the numbers the two fields hold and the mode, as the
\* table computed at the start has it, stamped with the time ts.
DisplayOf(amountNum, vatRateNum, m, ts) ==
  [(CHOOSE t \in vatTable :
       t.amt = amountNum /\ t.rate = vatRateNum /\ t.m = m).calculation
     EXCEPT !.timestamp = ts]

\* C27: after every event a result is displayed exactly when the amount and
\* the rate pass the validation gate, and the result displayed is
\* calculateVat of the amount and the rate parsed and of the mode.
C27_ResultMatchesInputs ==
  /\ (result # Null) = ~GateFails
  /\ result # Null =>
        result = DisplayOf(parseFloat(amount), parseFloat(vatRate), mode, result.timestamp)

\* C27 witness: a change of mode recomputed the result displayed for a
\* positive amount; it is the extraction, whose net amount is below 5.
C27_Witness ==
  /\ lastEvent = "setMode"
  /\ mode = "extract"
  /\ AmountPositive
  /\ result # Null
  /\ result.mode = "extract"
  /\ result.priceExcludingVat < result.src

\* C28: an edit of the rate to a new text while the amount is not empty
\* commits nothing and leaves exactly one timer pending, the one it started;
\* when the timer fires right after the edit with the inputs valid and the
\* amount above zero, what the event commits is the result under the new
\* rate, unless its key is the last saved one.
C28_RateEditDebounced ==
  [][/\ (lastEvent' = "setVatRate" /\ amount # <<>> /\ vatRate' # vatRate)
          => /\ evCommits' = <<>>
             /\ Cardinality(timers') = 1
             /\ debounceTimerRef' \in timers'
     /\ (lastEvent = "setVatRate" /\ lastEvent' = "timer" /\ timers # {}
           /\ ~GateFails /\ AmountPositive)
          => /\ result.vatRate = parseFloat(vatRate)
             /\ result = DisplayOf(parseFloat(amount), parseFloat(vatRate), mode, result.timestamp)
             /\ evCommits' = (IF createCalculationKey(result, mode) = lastSavedKeyRef
                                THEN <<>> ELSE <<result>>)
             /\ timers' = {}]_vars

\* C28 witness: after the result at 7.5 was committed the rate was edited to
\* 20 and the timer committed the result at 20 of the same amount.
C28_Witness ==
  /\ lastEvent = "timer"
  /\ Len(committed) = 2
  /\ committed[1].vatRate = 7500
  /\ committed[2].vatRate = 20000
  /\ committed[2].src = committed[1].src
  /\ evCommits = <<result>>
  /\ committed[2] = result
  /\ timers = {}

\* The event being handled empties an amount that was not empty.
AmountCleared == lastEvent' = "setAmount" /\ amount # <<>> /\ amount' = <<>>

\* C29: the timer that fires is the one debounceTimerRef names, the only one
\* the event loop holds, and nothing is pending after it; blur, Enter,
\* clearing the amount and reset leave no timer behind that could fire
\* later, and an edit that schedules leaves only the timer it started.
C29_OnlyPendingTimerFires ==
  [][/\ lastEvent' = "timer"
          => /\ debounceTimerRef # 0
             /\ timers = {debounceTimerRef}
             /\ timers' = {}
             /\ debounceTimerRef' = 0
     /\ (lastEvent' \in {"blur", "enter", "reset"} \/ AmountCleared)
          => (timers' = {} /\ debounceTimerRef' = 0)
     /\ (lastEvent' \in {"setAmount", "setVatRate"} /\ timers' # {})
          => timers' = {debounceTimerRef'}]_vars

\* C29 witness: the one commit of the run came from the timer the last of
\* two edits in a row started; the timer of the first edit never fired.
C29_Witness ==
  /\ lastEvent = "timer"
  /\ burst >= 2
  /\ Len(evCommits) = 1
  /\ committed = evCommits
  /\ debounceTimerRef = 0
  /\ timers = {}

\* Some entry of the history has the ContentKey of the result displayed.
ResultInHistory ==
  \E i \in 1..Len(history) : ContentKey(history[i]) = ContentKey(result)

\* C30: a blur with a result displayed for an amount above zero whose key is
\* not the last saved one appends the result even when an entry of the
\* history has the same key: only the entry saved last suppresses a commit.
C30_DedupAgainstLastOnly ==
  [][(lastEvent' = "blur" /\ result # Null /\ AmountPositive
        /\ createCalculationKey(result, mode) # lastSavedKeyRef
        /\ ResultInHistory)
     => /\ evCommits' = <<result>>
        /\ history' = addCalculation(history, result)]_vars

\* C30 witness: A, then a different B, then A again were committed and the
\* history holds the three of them.
C30_Witness ==
  /\ lastEvent = "blur"
  /\ Len(committed) = 3
  /\ Len(history) = 3
  /\ ContentKey(committed[1]) = ContentKey(committed[3])
  /\ ContentKey(committed[2]) # ContentKey(committed[1])
  /\ history[1] = committed[3]

\* c cents is the cent value nearest to total * rate / (100 + rate), the
\* upper one at a tie, with total and rate in thousandths and the quotient
\* taken exactly:
\* (2c - 1) * 10 * (10^5 + rate) <= 2 * total * rate < (2c + 1) * 10 * (10^5 + rate).
NearestCentOfShare(c, total, rate) ==
  LET twice == BMulSmall(BMul(BFromNat(total), BFromNat(rate)), 2, 0)
      unit == BMulSmall(BFromNat(100 * Milli + rate), 10, 0)
  IN /\ c >= 0
     /\ c = 0 \/ BCmp(BMul(BFromNat(2 * c - 1), unit), twice) <= 0
     /\ BCmp(twice, BMul(BFromNat(2 * c + 1), unit)) < 0

\* The vatAmount extractVat returned is within d thousandths of the VAT
\* derived on its own, round2(total * rate / (100 + rate)).
VatWithin(d) ==
  \E c \in {ret.vatAmount \div 10 - 1, ret.vatAmount \div 10, ret.vatAmount \div 10 + 1} :
     /\ NearestCentOfShare(c, call.x, call.y)
     /\ ret.vatAmount - 10 * c <= d
     /\ 10 * c - ret.vatAmount <= d

\* extractVat, called directly, has returned a result.
ExtractReturned == call.fn = "extractVat" /\ call.prev = Null /\ ret \notin {Pending, Thrown}

\* C31 as stated: the vatAmount of extractVat is within half a cent of the
\* VAT derived on its own.
C31_VatWithinHalfCent == ExtractReturned => VatWithin(5)

\* C31: the vatAmount of extractVat is within one cent of the VAT derived on
\* its own.
C31_VatWithinOneCent == ExtractReturned => VatWithin(10)

\* C31 witness: the two differ by a whole cent.
C31_Witness == ExtractReturned /\ VatWithin(10) /\ ~VatWithin(5)

\* C32: every result addVat or extractVat returns, for an amount of zero or
\* more and a rate from 0 to 100, has its three monetary fields at zero or
\* above, and its priceExcludingVat at most its priceIncludingVat.
C32_FieldsNonNegative ==
  VatReturned /\ call.x >= 0 /\ call.y >= 0 /\ call.y <= 100 * Milli =>
    /\ ret.priceExcludingVat >= 0
    /\ ret.vatAmount >= 0
    /\ ret.priceIncludingVat >= 0
    /\ ret.priceExcludingVat <= ret.priceIncludingVat

\* C32 witness: extractVat has returned a result without VAT for a total
\* that is not a whole number of cents.
C32_Witness ==
  /\ ExtractReturned
  /\ call.x % 10 # 0
  /\ ret.vatAmount = 0
  /\ ret.priceExcludingVat = ret.priceIncludingVat
  /\ ret.priceIncludingVat > 0

\* C33: an addCalculation or a clearHistory leaves the array a caller of
\* getHistory holds as it was, the store's history is a new array afterwards,
\* and after an addCalculation every entry behind the new one is the entry
\* that stood one place nearer the head, unchanged.
C33_HeldHistoryUnchanged ==
  [][lastEvent' \in {"addCalculation", "clearHistory"} =>
       /\ call'.held = call.held
       /\ call.held # 0 => ret'.heap[call.held] = ret.heap[call.held]
       /\ ret'.store # ret.store
       /\ history' = ret'.heap[ret'.store]
       /\ lastEvent' = "addCalculation" =>
            /\ Len(history') <= Len(history) + 1
            /\ \A i \in 2..Len(history') : history'[i] = history[i - 1]
       /\ lastEvent' = "clearHistory" => history' = <<>>]_vars

\* C33 witness: a full array is held, and an addCalculation has since evicted
\* its oldest entry from the store's history.
C33_Witness ==
  /\ call.held # 0
  /\ lastEvent = "addCalculation"
  /\ Len(ret.heap[call.held]) = maxHistorySize
  /\ Len(history) = maxHistorySize
  /\ ret.heap[call.held][maxHistorySize] # history[maxHistorySize]

\* C34: clearHistory leaves the history empty, whatever it held, and leaves
\* the amount, the rate, the mode, the displayed result, the pending timer,
\* the last saved key and the last valid result as they were.
C34_ClearHistoryOnlyEmptiesHistory ==
  [][lastEvent' = "clearHistory"
     => /\ history' = <<>>
        /\ UNCHANGED <<amount, vatRate, mode, result, timers, debounceTimerRef,
                       lastSavedKeyRef, lastValidResultRef, latestAmountRef,
                       latestVatRateRef, latestModeRef, latestResultRef>>]_vars

\* C34 witness: the history was cleared after a commit, with a result
\* displayed, a key saved and a timer pending.
C34_Witness ==
  /\ lastEvent = "clearHistory"
  /\ committed # <<>>
  /\ history = <<>>
  /\ result # Null
  /\ lastSavedKeyRef # <<>>
  /\ timers # {}

\* A result is displayed and the amount is above zero.
DisplayedValid == result # Null /\ AmountPositive

\* No timer is pending and the displayed result is the one saved last or an
\* entry committed earlier.
Idle ==
  /\ timers = {}
  /\ \/ createCalculationKey(result, mode) = lastSavedKeyRef
     \/ \E i \in 1..Len(committed) : ContentKey(committed[i]) = ContentKey(result)

\* C35: once the user has gone quiet with a result displayed for an amount
\* above zero, the controller eventually is idle: no timer is pending and the
\* displayed result has been committed.  (A run that has used up the commits
\* of the model is left out.)
C35_EventuallyIdle ==
  (call = Quiet /\ DisplayedValid /\ Len(committed) < commitBound)
    ~> ((DisplayedValid /\ Idle) \/ Len(committed) >= commitBound)

\* C36: an Enter, whose handler saves and then blurs the field so that the
\* blur handler saves again, commits at most one entry; when it commits one,
\* it is the displayed result.
C36_EnterCommitsAtMostOnce ==
  [][lastEvent' = "enter"
     => /\ Len(evCommits') <= 1
        /\ Len(history') <= Len(history) + 1
        /\ evCommits' # <<>> => evCommits' = <<result>>]_vars

\* C36 witness: an Enter has committed the displayed result, and only once.
C36_Witness ==
  /\ lastEvent = "enter"
  /\ Len(evCommits) = 1
  /\ evCommits[1] = result
  /\ history # <<>> /\ history[1] = result
  /\ Len(history) = 1 \/ ContentKey(history[2]) # ContentKey(result)

\* C37: an edit of the amount or of the rate whose text is not empty and
\* fails the pattern leaves the amount, the rate, the mode, the displayed
\* result, the pending timer, the last valid result, the last saved key and
\* the history as they were.
C37_RejectedEditChangesNothing ==
  [][lastEvent' \in {"rejectedAmount", "rejectedVatRate"}
     => /\ evCommits' = <<>>
        /\ UNCHANGED <<amount, vatRate, mode, result, timers, debounceTimerRef,
                       lastValidResultRef, lastSavedKeyRef, history,
                       latestAmountRef, latestVatRateRef, latestModeRef,
                       latestResultRef>>]_vars

\* C37 witness: an amount text was rejected with a result displayed, a timer
\* pending and an entry in the history.
C37_Witness ==
  /\ lastEvent = "rejectedAmount"
  /\ result # Null
  /\ timers # {}
  /\ lastSavedKeyRef # <<>>
  /\ history # <<>>

\* C38: clearHistory leaves the last saved key as it was; right after it, with
\* the result of that key still displayed, a blur, an Enter or a timer firing
\* commits nothing and the history stays empty; and an empty history gets
\* its next entry only with a change of the last saved key.
C38_ClearKeepsDedupKey ==
  [][/\ lastEvent' = "clearHistory" => lastSavedKeyRef' = lastSavedKeyRef
     /\ (/\ lastEvent = "clearHistory"
         /\ DisplayedValid
         /\ createCalculationKey(result, mode) = lastSavedKeyRef
         /\ lastEvent' \in {"blur", "enter", "timer"})
        => (evCommits' = <<>> /\ history' = <<>>)
     /\ (history = <<>> /\ history' # <<>>) => lastSavedKeyRef' # lastSavedKeyRef]_vars

\* C38 witness: the history is empty after a commit, the result committed
\* last is displayed, and a blur has just committed nothing.
C38_Witness ==
  /\ lastEvent = "blur"
  /\ committed # <<>>
  /\ history = <<>>
  /\ DisplayedValid
  /\ result = committed[Len(committed)]
  /\ evCommits = <<>>
  /\ lastSavedKeyRef = createCalculationKey(result, mode)

\* C39: whenever a timer is pending the amount field is not empty.
C39_TimerImpliesAmount == timers # {} => amount # <<>>

\* C39 witness: the amount was cleared while a timer was pending, and none is
\* pending now.
C39_Witness ==
  /\ lastEvent = "setAmount"
  /\ evHadTimer
  /\ amount = <<>>
  /\ timers = {}

====
